---------------------------- MODULE Spec2Model ----------------------------
(* Forward proxy of src/1-python-forward-proxy-server/server.py:          *)
(* the listener (start), the connection handler (handle_client) and the   *)
(* bidirectional relay (forward_data), with the peers as environment.     *)
EXTENDS Integers, Sequences, FiniteSets, TLC

(**************************************************************************)
(* Bounds of the model                                                    *)
(**************************************************************************)
\* number of clients that connect in a behaviour of the listener specification
NConns == 2
\* events (a byte sent after the request, a shutdown, a reset) the peers may
\* cause in a behaviour of the one-connection specification
MaxEvents == 3
\* the same, all connections together, in the listener specification
ListenerEvents == 2
\* at most this many bytes of a failing sendall are written before it raises
MaxPartial == 1
\* runs of the batch scraper in a behaviour of the scraper specification
MaxRuns == 2

(**************************************************************************)
(* Bytes and text.  A byte is a one-character string, or one of the three *)
(* non-ASCII bytes xC3, xA9 (together the UTF-8 encoding of e-acute) and  *)
(* xFF (never valid in UTF-8).  A text is a sequence of code points.      *)
(**************************************************************************)
Min(a, b) == IF a < b THEN a ELSE b

Take(s, n) == SubSeq(s, 1, Min(n, Len(s)))

Drop(s, n) == SubSeq(s, Min(n, Len(s)) + 1, Len(s))

IsPrefix(s, t) == Len(s) <= Len(t) /\ SubSeq(t, 1, Len(s)) = s

NonAscii == {"xC3", "xA9", "xFF"}

\* whether the bytes are valid UTF-8
RECURSIVE decodes(_)
decodes(bs) ==
    IF bs = <<>> THEN TRUE
    ELSE IF bs[1] \notin NonAscii THEN decodes(Tail(bs))
    ELSE IF bs[1] = "xC3" /\ Len(bs) >= 2 /\ bs[2] = "xA9"
         THEN decodes(SubSeq(bs, 3, Len(bs)))
    ELSE FALSE

\* the code points of valid UTF-8 bytes
RECURSIVE code_points(_)
code_points(bs) ==
    IF bs = <<>> THEN <<>>
    ELSE IF bs[1] \notin NonAscii THEN <<bs[1]>> \o code_points(Tail(bs))
    ELSE <<"e-acute">> \o code_points(SubSeq(bs, 3, Len(bs)))

\* bytes.decode('utf-8'): strict, fails on an invalid or truncated sequence
decode(bs) ==
    IF decodes(bs) THEN [ok |-> TRUE, text |-> code_points(bs)]
    ELSE [ok |-> FALSE, text |-> <<>>]

\* a str.encode('latin-1'): one byte per code point
RECURSIVE encode_latin1(_)
encode_latin1(t) ==
    IF t = <<>> THEN <<>>
    ELSE IF t[1] = "e-acute" THEN <<"xE9">> \o encode_latin1(Tail(t))
    ELSE <<t[1]>> \o encode_latin1(Tail(t))

\* str.encode(): UTF-8
RECURSIVE encode(_)
encode(t) ==
    IF t = <<>> THEN <<>>
    ELSE IF t[1] = "e-acute" THEN <<"xC3", "xA9">> \o encode(Tail(t))
    ELSE <<t[1]>> \o encode(Tail(t))

\* index of the first occurrence of sep in s at or after i, 0 when there is none
RECURSIVE find(_, _, _)
find(s, sep, i) ==
    IF i + Len(sep) - 1 > Len(s) THEN 0
    ELSE IF SubSeq(s, i, i + Len(sep) - 1) = sep THEN i
    ELSE find(s, sep, i + 1)

\* str.split(sep): the pieces between the occurrences of sep, empty ones kept
\* (the singleton sets bind the position and the rest once)
RECURSIVE split(_, _)
split(s, sep) ==
    CHOOSE pieces \in
        {IF i = 0 THEN <<s>>
         ELSE <<SubSeq(s, 1, i - 1)>>
                  \o CHOOSE more \in {split(rest, sep) :
                         rest \in {SubSeq(s, i + Len(sep), Len(s))}} : TRUE
         : i \in {find(s, sep, 1)}} : TRUE

Whitespace == {" ", "\t", "\n", "\r"}

\* str.split(): the maximal runs of non-whitespace, in order
split_ws(s) ==
    LET starts == {i \in 1..Len(s) :
                      s[i] \notin Whitespace /\ (i = 1 \/ s[i - 1] \in Whitespace)}
        start(k) == CHOOSE i \in starts : Cardinality({j \in starts : j < i}) = k - 1
        stop(i) == CHOOSE j \in i..Len(s) :
                      /\ \A m \in i..j : s[m] \notin Whitespace
                      /\ j = Len(s) \/ s[j + 1] \in Whitespace
    IN  [k \in 1..Cardinality(starts) |-> SubSeq(s, start(k), stop(start(k)))]

upper_char(ch) ==
    CASE ch = "c" -> "C"
      [] ch = "o" -> "O"
      [] ch = "n" -> "N"
      [] ch = "e" -> "E"
      [] ch = "t" -> "T"
      [] ch = "g" -> "G"
      [] ch = "h" -> "H"
      [] OTHER -> ch

\* str.upper()
upper(s) == [i \in 1..Len(s) |-> upper_char(s[i])]

Digits == <<"0", "1", "2", "3", "4", "5", "6", "7", "8", "9">>

digit_value(ch) == (CHOOSE i \in 1..10 : Digits[i] = ch) - 1

is_digit(ch) == \E i \in 1..10 : Digits[i] = ch

RECURSIVE int_value(_)
int_value(s) ==
    IF s = <<>> THEN 0
    ELSE int_value(SubSeq(s, 1, Len(s) - 1)) * 10 + digit_value(s[Len(s)])

\* int(str): fails on the empty string and on any non-digit
int(s) ==
    IF s # <<>> /\ \A i \in 1..Len(s) : is_digit(s[i])
    THEN [ok |-> TRUE, value |-> int_value(s)]
    ELSE [ok |-> FALSE, value |-> 0]

(**************************************************************************)
(* The request line, as handle_client reads it                            *)
(**************************************************************************)
CONNECT == <<"C", "O", "N", "N", "E", "C", "T">>

\* the acknowledgement of a tunnel
Ack == <<"H", "T", "T", "P", "/", "1", ".", "1", " ", "2", "0", "0", " ",
         "C", "o", "n", "n", "e", "c", "t", "i", "o", "n", " ",
         "e", "s", "t", "a", "b", "l", "i", "s", "h", "e", "d",
         "\r", "\n", "\r", "\n">>

\* request_data.split("\n")[0]
first_line(request_data) == split(request_data, <<"\n">>)[1]

\* method, url, *_ = first_line.split(): two values or more
unpack_ok_from_two(tokens) == Len(tokens) >= 2

\* method, url, _ = first_line.split() unpacks exactly three values
unpack_ok(tokens) == Len(tokens) = 3

\* method == "CONNECT": a comparison that respects the letter case
is_connect_exact(method) == method = CONNECT

\* method.upper() == "CONNECT"
is_connect(method) == upper(method) = CONNECT

\* a CONNECT target whose missing port defaults to that of plain HTTP
connect_target_80(url) ==
    LET host_port == split(url, <<":">>)
        p == IF Len(host_port) > 1 THEN int(host_port[2])
             ELSE [ok |-> TRUE, value |-> 80]
    IN  [ok |-> p.ok, host |-> host_port[1], port |-> p.value]

\* CONNECT: host_port = url.split(':'), host_port[0], int(host_port[1]) or 443
connect_target(url) ==
    LET host_port == split(url, <<":">>)
        p == IF Len(host_port) > 1 THEN int(host_port[2])
             ELSE [ok |-> TRUE, value |-> 443]
    IN  [ok |-> p.ok, host |-> host_port[1], port |-> p.value]

\* otherwise: url.split("://")[-1].split('/')[0], port 80
http_target(url) ==
    LET parts == split(url, <<":", "/", "/">>)
        rest  == parts[Len(parts)]
    IN  [ok |-> TRUE, host |-> split(rest, <<"/">>)[1], port |-> 80]

NoRequest ==
    [ok |-> FALSE, connect |-> FALSE, host |-> <<>>, port |-> 0,
     request_data |-> <<>>]

\* lines 47-51 and 58-62: the branch on the method and the target
parse_tokens(tokens, request_data) ==
    LET t == IF is_connect(tokens[1]) THEN connect_target(tokens[2])
             ELSE http_target(tokens[2])
    IN  IF ~t.ok THEN NoRequest
        ELSE [ok |-> TRUE, connect |-> is_connect(tokens[1]),
              host |-> t.host, port |-> t.port, request_data |-> request_data]

\* lines 44-45: the first line and its three tokens
parse_text(request_data) ==
    LET lines == {first_line(request_data)}
        split_lines == {split_ws(line) : line \in lines}
    IN  CHOOSE p \in {IF unpack_ok(tokens) THEN parse_tokens(tokens, request_data)
                      ELSE NoRequest : tokens \in split_lines} : TRUE

\* lines 41-51 and 58-62: everything between the first read and the dial;
\* ok is FALSE when one of these lines raises
parse(request) ==
    CHOOSE p \in {IF d.ok THEN parse_text(d.text) ELSE NoRequest :
                  d \in {decode(request)}} : TRUE

(**************************************************************************)
(* The requests a client of the model may send as its first bytes         *)
(**************************************************************************)
ReqConnect     == <<"C","O","N","N","E","C","T"," ","h",":","8"," ","V","\r","\n">>
ReqConnectLow  == <<"c","o","n","n","e","c","t"," ","h"," ","V","\n">>
ReqConnectBad  == <<"C","O","N","N","E","C","T"," ","h",":","x"," ","V","\n">>
ReqGet         == <<"G","E","T"," ","s",":","/","/","h","/","p"," ","V","\r","\n">>
ReqGetPort     == <<"G","E","T"," ","h",":","8","/"," ","V","\n">>
ReqGetUtf      == <<"G","E","T"," ","h","/","xC3","xA9"," ","V","\n">>
ReqGetSchemes  == <<"G","E","T"," ","s",":","/","/","h","/","?","s",":","/","/","e"," ","V","\n">>
ReqBadUtf      == <<"G","E","T"," ","h"," ","V","\n","xFF">>
ReqOneToken    == <<"G","E","T","\n">>
ReqTwoTokens   == <<"G","E","T"," ","h","\n">>
ReqFourTokens  == <<"G","E","T"," ","h"," ","V"," ","W","\n">>
ReqSecondLine  == <<"G","E","T","\n","h"," ","V","\n">>
ReqNoLineBreak == <<"G","E","T"," ","h"," ","V">>
ReqCutLine     == <<"C","O","N","N","E","C","T"," ","h",":","8"," ">>

Requests == {ReqConnect, ReqConnectLow, ReqConnectBad, ReqGet, ReqGetPort,
             ReqGetUtf, ReqGetSchemes, ReqBadUtf, ReqOneToken, ReqTwoTokens, ReqFourTokens,
             ReqSecondLine, ReqNoLineBreak, ReqCutLine}

ListenerRequests == {ReqConnect, ReqGet, ReqTwoTokens}

ClientBytes == <<"a", "b", "c", "d", "e">>

UpstreamBytes == <<"v", "w", "x", "y", "z">>

(**************************************************************************)
(* State                                                                  *)
(**************************************************************************)
VARIABLES
    lpc,      \* the main thread in start: "accept", "finally", "returned", "exited"
    server,   \* the listening socket: "listening" or "closed"
    backlog,  \* connections established and not yet accepted, oldest first
    conn,     \* per connection: the handler, its sockets, its relay and the peers
    setup,    \* what the environment of this behaviour may do
    quota,    \* events the peers may still cause
    app       \* the batch scraper (app.py): its files and its main loop

vars == <<lpc, server, backlog, conn, setup, quota, app>>

Conns == 1..NConns

\* listen(5)
Backlog == 5

\* recv(4096) of the handler and recv(8192) of a copy worker
RequestBufSize == 4096

ChunkSize == 8192

\* source_handler copies client -> remote, dest_handler copies remote -> client
source_handler == 1

dest_handler == 2

Workers == {source_handler, dest_handler}

NewConn ==
    [ hpc           |-> "idle",     \* position of handle_client
      request       |-> <<>>,       \* the first chunk read from the client
      parsed        |-> NoRequest,  \* request_data, method, host and port
      exc           |-> FALSE,      \* the except clause has run
      dials         |-> 0,          \* calls of remote_socket.connect
      dialed        |-> <<>>,       \* the (host, port) passed to connect
      client_close  |-> 0,          \* calls of client_socket.close
      remote_socket |-> "none",     \* "none", "created", "connected"
      remote_close  |-> 0,          \* calls of remote_socket.close
      wpc           |-> <<"none", "none">>,  \* position of each copy worker
      data          |-> <<<<>>, <<>>>>,      \* the chunk each worker holds
      response      |-> <<<<>>, <<>>>>,      \* bytes each worker has read
      to_client     |-> <<>>,       \* bytes written to the client socket
      to_remote     |-> <<>>,       \* bytes written to the remote socket
      cpeer         |-> "none",     \* the client: "none", "open", "eof", "reset"
      csent         |-> <<>>,       \* bytes the client has sent
      cread         |-> 0,          \* how many of them the proxy has read
      upeer         |-> "none",     \* the upstream: "none", "open", "eof", "reset"
      umode         |-> "free",     \* "free", or "echo" for an echoing upstream
      usent         |-> <<>>,       \* bytes the upstream has sent
      uread         |-> 0 ]         \* how many of them the proxy has read

\* app.py: the text of the file processed_links the scraper may be given
\* (a link is one character; the last one repeats a link and ends in a
\* blank line)
ProcessedFiles ==
    { <<"a", "\n", "b">>,
      <<"a", "\n", "b", "\n", "c">>,
      <<"a", "\n", "b", "\n", "a", "\n">> }

\* app.py before its first run: scraping_links exists and is empty, and
\* output/articles.jsonl has no line
NewApp(processed) ==
    [ pc                    |-> "idle",    \* "idle", "loop", "scraper", "add", "write"
      runs                  |-> 0,         \* runs started
      processed_links       |-> processed, \* text of the file processed_links
      scraping_links        |-> <<>>,      \* text of the file scraping_links
      articles              |-> <<>>,      \* the links of the lines of articles.jsonl
      unique_links          |-> <<>>,      \* the links the loop has still to visit
      scraping_unique_links |-> {},        \* the set of line 103
      link                  |-> <<>> ]     \* the loop variable

Init ==
    /\ lpc = "accept"
    /\ server = "listening"
    /\ backlog = <<>>
    /\ conn = [c \in Conns |-> NewConn]
    /\ setup = [clients |-> 1, requests |-> Requests, modes |-> {"free", "echo"}]
    /\ quota = MaxEvents
    /\ app = NewApp(<<>>)

InitListener ==
    /\ lpc = "accept"
    /\ server = "listening"
    /\ backlog = <<>>
    /\ conn = [c \in Conns |-> NewConn]
    /\ setup = [clients |-> NConns, requests |-> ListenerRequests, modes |-> {"echo"}]
    /\ quota = ListenerEvents
    /\ app = NewApp(<<>>)

Set(c, r) == conn' = [conn EXCEPT ![c] = r]

\* every thread of the process but the main one is a daemon thread
Running == lpc # "exited"

(**************************************************************************)
(* The peers                                                              *)
(**************************************************************************)
ClientPending(c) == Drop(conn[c].csent, conn[c].cread)

UpstreamPending(c) == Drop(conn[c].usent, conn[c].uread)

ClientConnect(c) ==
    /\ Running /\ server = "listening"
    /\ c <= setup.clients
    /\ conn[c].cpeer = "none"
    /\ \A d \in 1..(c - 1) : conn[d].cpeer # "none"
    /\ Len(backlog) < Backlog
    /\ backlog' = Append(backlog, c)
    /\ Set(c, [conn[c] EXCEPT !.cpeer = "open"])
    /\ UNCHANGED <<lpc, server, setup, quota, app>>

Live(c) == Running /\ conn[c].hpc # "done"

ClientSendRequest(c) ==
    /\ Live(c) /\ conn[c].cpeer = "open" /\ conn[c].csent = <<>>
    /\ \E r \in setup.requests : Set(c, [conn[c] EXCEPT !.csent = r])
    /\ UNCHANGED <<lpc, server, backlog, setup, quota, app>>

ClientSend(c) ==
    /\ Live(c) /\ conn[c].cpeer = "open" /\ conn[c].csent # <<>>
    /\ quota > 0
    /\ quota' = quota - 1
    /\ Set(c, [conn[c] EXCEPT !.csent = Append(@, ClientBytes[(quota % 5) + 1])])
    /\ UNCHANGED <<lpc, server, backlog, setup, app>>

ClientShut(c) ==
    /\ Live(c) /\ conn[c].cpeer = "open"
    /\ quota > 0
    /\ quota' = quota - 1
    /\ Set(c, [conn[c] EXCEPT !.cpeer = "eof"])
    /\ UNCHANGED <<lpc, server, backlog, setup, app>>

ClientReset(c) ==
    /\ Live(c) /\ conn[c].cpeer \in {"open", "eof"}
    /\ quota > 0
    /\ quota' = quota - 1
    /\ Set(c, [conn[c] EXCEPT !.cpeer = "reset"])
    /\ UNCHANGED <<lpc, server, backlog, setup, app>>

\* an echoing upstream sends back what it has received and not yet sent back
UpstreamSend(c) ==
    /\ Live(c) /\ conn[c].upeer = "open"
    /\ IF conn[c].umode = "echo"
       THEN /\ Len(conn[c].usent) < Len(conn[c].to_remote)
            /\ Set(c, [conn[c] EXCEPT !.usent = conn[c].to_remote])
            /\ UNCHANGED quota
       ELSE /\ quota > 0
            /\ quota' = quota - 1
            /\ Set(c, [conn[c] EXCEPT
                           !.usent = Append(@, UpstreamBytes[(quota % 5) + 1])])
    /\ UNCHANGED <<lpc, server, backlog, setup, app>>

UpstreamShut(c) ==
    /\ Live(c) /\ conn[c].upeer = "open"
    /\ quota > 0
    /\ quota' = quota - 1
    /\ Set(c, [conn[c] EXCEPT !.upeer = "eof"])
    /\ UNCHANGED <<lpc, server, backlog, setup, app>>

UpstreamReset(c) ==
    /\ Live(c) /\ conn[c].upeer \in {"open", "eof"}
    /\ quota > 0
    /\ quota' = quota - 1
    /\ Set(c, [conn[c] EXCEPT !.upeer = "reset"])
    /\ UNCHANGED <<lpc, server, backlog, setup, app>>

(**************************************************************************)
(* handle_client                                                          *)
(**************************************************************************)
\* what a sendall that raises has written by then
PartialWrites(data) == {Take(data, j) : j \in 0..Min(Len(data) - 1, MaxPartial)}

\* an except clause that answers the client with an error status
except_reply_400 == <<"4", "0", "0">>

\* the bytes the except clause writes to the client: it only prints
except_reply == <<>>

\* the except clause (lines 69-70), entered from any raising line of the try
Raise(r) ==
    [r EXCEPT !.hpc = "finally", !.exc = TRUE,
              !.to_client = r.to_client \o except_reply]

\* a handler that goes on to the dial whatever the parse gave
AfterRecvNoCheck(r, request, parsed) ==
    [r EXCEPT !.hpc = "dial", !.request = request, !.parsed = parsed,
              !.cread = r.cread + Len(request)]

\* lines 39-51 and 58-62: an empty read closes the client socket (line 40)
\* and goes on to the decode; a line that raises leads to the except clause
AfterRecv(r, request, parsed) ==
    LET s == [r EXCEPT !.request = request,
                       !.parsed = parsed,
                       !.cread = r.cread + Len(request),
                       !.client_close =
                           IF request = <<>> THEN r.client_close + 1
                           ELSE r.client_close]
    IN  IF parsed.ok THEN [s EXCEPT !.hpc = "dial"] ELSE Raise(s)

\* line 38, request = client_socket.recv(4096), and what follows it up to the dial
HandlerRecv(c) ==
    /\ Running /\ conn[c].hpc = "recv"
    /\ \/ /\ ClientPending(c) # <<>>
          /\ \E request \in {Take(ClientPending(c), RequestBufSize)} :
             \E parsed \in {parse(request)} :
                 Set(c, AfterRecv(conn[c], request, parsed))
       \/ /\ ClientPending(c) = <<>> /\ conn[c].cpeer = "eof"
          /\ \E parsed \in {parse(<<>>)} :
                 Set(c, AfterRecv(conn[c], <<>>, parsed))
       \/ /\ conn[c].cpeer = "reset"
          /\ Set(c, Raise(conn[c]))
    /\ UNCHANGED <<lpc, server, backlog, setup, quota, app>>

\* a handler that dials again after a failed dial
DialRetry(c) ==
    LET r == conn[c]
        p == r.parsed
        s == [r EXCEPT !.dials = r.dials + 1, !.dialed = <<p.host, p.port>>]
    IN  /\ Running /\ r.hpc = "dial"
        /\ \/ \E m \in setup.modes :
                 Set(c, [s EXCEPT !.remote_socket = "connected",
                                  !.upeer = "open", !.umode = m,
                                  !.hpc = IF p.connect THEN "ack" ELSE "fwd"])
           \/ /\ r.dials < 2
              /\ Set(c, [s EXCEPT !.remote_socket = "created"])
        /\ UNCHANGED <<lpc, server, backlog, setup, quota, app>>

\* lines 53-54 and 64-65
Dial(c) ==
    LET r == conn[c]
        p == r.parsed
        s == [r EXCEPT !.dials = r.dials + 1, !.dialed = <<p.host, p.port>>]
    IN  /\ Running /\ r.hpc = "dial"
        /\ \/ \E m \in setup.modes :
                 Set(c, [s EXCEPT !.remote_socket = "connected",
                                  !.upeer = "open", !.umode = m,
                                  !.hpc = IF p.connect THEN "ack" ELSE "fwd"])
           \/ Set(c, Raise([s EXCEPT !.remote_socket = "created"]))
        /\ UNCHANGED <<lpc, server, backlog, setup, quota, app>>

\* lines 108-111: both copy workers are started
StartRelay(r) ==
    [r EXCEPT !.hpc = "relay", !.wpc = <<"recv", "recv">>]

\* a handler that starts the relay and never writes the acknowledgement
SendAckMissing(c) ==
    /\ Running /\ conn[c].hpc = "ack"
    /\ Set(c, StartRelay(conn[c]))
    /\ UNCHANGED <<lpc, server, backlog, setup, quota, app>>

\* a handler that passes on to the upstream what the first chunk holds
\* behind its first line
SendAckForwardsRest(c) ==
    LET r    == conn[c]
        i    == find(r.request, <<"\n">>, 1)
        rest == IF i > 0 THEN SubSeq(r.request, i + 1, Len(r.request)) ELSE <<>>
    IN  /\ Running /\ r.hpc = "ack"
        /\ IF r.cpeer # "reset"
           THEN Set(c, StartRelay([r EXCEPT !.to_client = r.to_client \o Ack,
                                            !.to_remote = r.to_remote \o rest]))
           ELSE \E w \in PartialWrites(Ack) :
                    Set(c, Raise([r EXCEPT !.to_client = r.to_client \o w]))
        /\ UNCHANGED <<lpc, server, backlog, setup, quota, app>>

\* lines 56-57
SendAck(c) ==
    LET r == conn[c]
    IN  /\ Running /\ r.hpc = "ack"
        /\ IF r.cpeer # "reset"
           THEN Set(c, StartRelay([r EXCEPT !.to_client = r.to_client \o Ack]))
           ELSE \E w \in PartialWrites(Ack) :
                    Set(c, Raise([r EXCEPT !.to_client = r.to_client \o w]))
        /\ UNCHANGED <<lpc, server, backlog, setup, quota, app>>

\* lines 66-68
SendRequest(c) ==
    LET r == conn[c]
        bytes == encode(r.parsed.request_data)
    IN  /\ Running /\ r.hpc = "fwd"
        /\ IF r.upeer # "reset"
           THEN Set(c, StartRelay([r EXCEPT !.to_remote = r.to_remote \o bytes]))
           ELSE \E w \in PartialWrites(bytes) :
                    Set(c, Raise([r EXCEPT !.to_remote = r.to_remote \o w]))
        /\ UNCHANGED <<lpc, server, backlog, setup, quota, app>>

\* a handler whose exception reaches the accept loop and ends it
FinallyPropagates(c) ==
    /\ Running /\ conn[c].hpc = "finally"
    /\ Set(c, [conn[c] EXCEPT !.hpc = "done", !.client_close = @ + 1])
    /\ lpc' = IF conn[c].exc /\ lpc = "accept" THEN "finally" ELSE lpc
    /\ UNCHANGED <<server, backlog, setup, quota, app>>

\* line 72
Finally(c) ==
    /\ Running /\ conn[c].hpc = "finally"
    /\ Set(c, [conn[c] EXCEPT !.hpc = "done", !.client_close = @ + 1])
    /\ UNCHANGED <<lpc, server, backlog, setup, quota, app>>

(**************************************************************************)
(* forward_data                                                           *)
(**************************************************************************)
\* a worker that reads again after an empty read ("continue" at line 103)
WorkerRecvPastEof(c, w) ==
    LET r       == conn[c]
        peer    == IF w = source_handler THEN r.cpeer ELSE r.upeer
        pending == IF w = source_handler THEN ClientPending(c) ELSE UpstreamPending(c)
        chunk   == Take(pending, ChunkSize)
        got     == [r EXCEPT !.wpc[w] = "send", !.data[w] = chunk,
                             !.response[w] = @ \o chunk]
    IN  /\ Running /\ r.hpc = "relay" /\ r.wpc[w] = "recv"
        /\ \/ /\ pending # <<>>
              /\ IF w = source_handler
                 THEN Set(c, [got EXCEPT !.cread = @ + Len(chunk)])
                 ELSE Set(c, [got EXCEPT !.uread = @ + Len(chunk)])
           \/ /\ pending = <<>> /\ peer = "eof"
              /\ Set(c, r)
           \/ /\ peer = "reset"
              /\ Set(c, [r EXCEPT !.wpc[w] = "stopped"])
        /\ UNCHANGED <<lpc, server, backlog, setup, quota, app>>

\* line 101: source.recv(8192)
WorkerRecv(c, w) ==
    LET r       == conn[c]
        peer    == IF w = source_handler THEN r.cpeer ELSE r.upeer
        pending == IF w = source_handler THEN ClientPending(c) ELSE UpstreamPending(c)
        chunk   == Take(pending, ChunkSize)
        got     == [r EXCEPT !.wpc[w] = "send", !.data[w] = chunk,
                             !.response[w] = @ \o chunk]
    IN  /\ Running /\ r.hpc = "relay" /\ r.wpc[w] = "recv"
        /\ \/ /\ pending # <<>>
              /\ IF w = source_handler
                 THEN Set(c, [got EXCEPT !.cread = @ + Len(chunk)])
                 ELSE Set(c, [got EXCEPT !.uread = @ + Len(chunk)])
           \/ /\ pending = <<>> /\ peer = "eof"
              /\ Set(c, [r EXCEPT !.wpc[w] = "stopped"])
           \/ /\ peer = "reset"
              /\ Set(c, [r EXCEPT !.wpc[w] = "stopped"])
        /\ UNCHANGED <<lpc, server, backlog, setup, quota, app>>

\* a worker that writes each chunk back to its source: source.sendall(data)
WorkerSendBack(c, w) ==
    LET r == conn[c]
        Written(bytes) ==
            IF w = source_handler
            THEN [r EXCEPT !.to_client = @ \o bytes]
            ELSE [r EXCEPT !.to_remote = @ \o bytes]
    IN  /\ Running /\ r.hpc = "relay" /\ r.wpc[w] = "send"
        /\ Set(c, [Written(r.data[w]) EXCEPT !.wpc[w] = "recv", !.data[w] = <<>>])
        /\ UNCHANGED <<lpc, server, backlog, setup, quota, app>>

\* a worker that tries a failed write again instead of leaving its loop
WorkerSendRetries(c, w) ==
    LET r    == conn[c]
        peer == IF w = source_handler THEN r.upeer ELSE r.cpeer
        Written(bytes) ==
            IF w = source_handler
            THEN [r EXCEPT !.to_remote = @ \o bytes]
            ELSE [r EXCEPT !.to_client = @ \o bytes]
    IN  /\ Running /\ r.hpc = "relay" /\ r.wpc[w] = "send"
        /\ IF peer # "reset"
           THEN Set(c, [Written(r.data[w]) EXCEPT !.wpc[w] = "recv",
                                                  !.data[w] = <<>>])
           ELSE Set(c, r)
        /\ UNCHANGED <<lpc, server, backlog, setup, quota, app>>

\* line 105: destination.sendall(data)
WorkerSend(c, w) ==
    LET r    == conn[c]
        peer == IF w = source_handler THEN r.upeer ELSE r.cpeer
        Written(bytes) ==
            IF w = source_handler
            THEN [r EXCEPT !.to_remote = @ \o bytes]
            ELSE [r EXCEPT !.to_client = @ \o bytes]
    IN  /\ Running /\ r.hpc = "relay" /\ r.wpc[w] = "send"
        /\ IF peer # "reset"
           THEN Set(c, [Written(r.data[w]) EXCEPT !.wpc[w] = "recv",
                                                  !.data[w] = <<>>])
           ELSE \E b \in PartialWrites(r.data[w]) :
                    Set(c, [Written(b) EXCEPT !.wpc[w] = "stopped"])
        /\ UNCHANGED <<lpc, server, backlog, setup, quota, app>>

\* a relay that joins one copy worker only (lines 112-113 with one join)
RelayCloseEarly(c) ==
    /\ Running /\ conn[c].hpc = "relay"
    /\ \E w \in Workers : conn[c].wpc[w] = "stopped"
    /\ Set(c, [conn[c] EXCEPT !.hpc = "finally",
                              !.client_close = @ + 1, !.remote_close = @ + 1])
    /\ UNCHANGED <<lpc, server, backlog, setup, quota, app>>

\* a relay that closes the client socket only (line 115 missing)
RelayCloseClientOnly(c) ==
    /\ Running /\ conn[c].hpc = "relay"
    /\ \A w \in Workers : conn[c].wpc[w] = "stopped"
    /\ Set(c, [conn[c] EXCEPT !.hpc = "finally", !.client_close = @ + 1])
    /\ UNCHANGED <<lpc, server, backlog, setup, quota, app>>

\* lines 112-115: both workers joined, both sockets closed, back in the handler
RelayClose(c) ==
    /\ Running /\ conn[c].hpc = "relay"
    /\ \A w \in Workers : conn[c].wpc[w] = "stopped"
    /\ Set(c, [conn[c] EXCEPT !.hpc = "finally",
                              !.client_close = @ + 1, !.remote_close = @ + 1])
    /\ UNCHANGED <<lpc, server, backlog, setup, quota, app>>

(**************************************************************************)
(* start                                                                  *)
(**************************************************************************)
\* an accept loop that calls handle_client itself, without a thread
AcceptInline(c) ==
    /\ lpc = "accept"
    /\ \A d \in Conns : conn[d].hpc \in {"idle", "done"}
    /\ backlog # <<>> /\ c = Head(backlog)
    /\ backlog' = Tail(backlog)
    /\ Set(c, [conn[c] EXCEPT !.hpc = "recv"])
    /\ UNCHANGED <<lpc, server, setup, quota, app>>

\* lines 138-141: accept, and a daemon thread running handle_client
Accept(c) ==
    /\ lpc = "accept"
    /\ backlog # <<>> /\ c = Head(backlog)
    /\ backlog' = Tail(backlog)
    /\ Set(c, [conn[c] EXCEPT !.hpc = "recv"])
    /\ UNCHANGED <<lpc, server, setup, quota, app>>

\* lines 142-143: KeyboardInterrupt ends the loop
Interrupt ==
    /\ lpc = "accept"
    /\ lpc' = "finally"
    /\ UNCHANGED <<server, backlog, conn, setup, quota, app>>

\* a start without its finally clause
ServerCloseMissing ==
    /\ lpc = "finally"
    /\ lpc' = "returned"
    /\ UNCHANGED <<server, backlog, conn, setup, quota, app>>

\* line 145
ServerClose ==
    /\ lpc = "finally"
    /\ lpc' = "returned"
    /\ server' = "closed"
    /\ UNCHANGED <<backlog, conn, setup, quota, app>>

\* line 148: start has returned, the main thread ends and with it the process
Exit ==
    /\ lpc = "returned"
    /\ lpc' = "exited"
    /\ UNCHANGED <<server, backlog, conn, setup, quota, app>>

Next ==
    \/ \E c \in Conns : ClientConnect(c)
    \/ \E c \in Conns : ClientSendRequest(c)
    \/ \E c \in Conns : ClientSend(c)
    \/ \E c \in Conns : ClientShut(c)
    \/ \E c \in Conns : ClientReset(c)
    \/ \E c \in Conns : UpstreamSend(c)
    \/ \E c \in Conns : UpstreamShut(c)
    \/ \E c \in Conns : UpstreamReset(c)
    \/ \E c \in Conns : Accept(c)
    \/ \E c \in Conns : HandlerRecv(c)
    \/ \E c \in Conns : Dial(c)
    \/ \E c \in Conns : SendAck(c)
    \/ \E c \in Conns : SendRequest(c)
    \/ \E c \in Conns, w \in Workers : WorkerRecv(c, w)
    \/ \E c \in Conns, w \in Workers : WorkerSend(c, w)
    \/ \E c \in Conns : RelayClose(c)
    \/ \E c \in Conns : Finally(c)
    \/ Interrupt
    \/ ServerClose
    \/ Exit

Spec == Init /\ [][Next]_vars

ListenerSpec == InitListener /\ [][Next]_vars

\* the handler threads and the copy workers are threads of the operating
\* system: one that can take its step is eventually scheduled (lines 108-111
\* and 140-141); nothing is assumed of the peers or of the interrupt
Fairness ==
    \A c \in Conns :
        /\ WF_vars(HandlerRecv(c)) /\ WF_vars(Dial(c))
        /\ WF_vars(SendAck(c)) /\ WF_vars(SendRequest(c))
        /\ WF_vars(RelayClose(c)) /\ WF_vars(Finally(c))
        /\ \A w \in Workers : WF_vars(WorkerRecv(c, w)) /\ WF_vars(WorkerSend(c, w))

\* one client that asks for a tunnel or for a forward
InitRelay ==
    /\ lpc = "accept"
    /\ server = "listening"
    /\ backlog = <<>>
    /\ conn = [c \in Conns |-> NewConn]
    /\ setup = [clients |-> 1, requests |-> {ReqConnect, ReqGet},
                modes |-> {"free", "echo"}]
    /\ quota = MaxEvents
    /\ app = NewApp(<<>>)

FairSpec == InitRelay /\ [][Next]_vars /\ Fairness

(**************************************************************************)
(* The batch scraper, app.py: runs of its main block, one after another   *)
(**************************************************************************)
Range(f) == {f[i] : i \in DOMAIN f}

\* list(s) of a set: its elements once each, in an order of Python's choosing
Lists(S) == {l \in [1..Cardinality(S) -> S] : Range(l) = S}

\* "".join(f"{link}\n" for link in links)
RECURSIVE write_lines(_)
write_lines(links) ==
    IF links = <<>> THEN <<>>
    ELSE links[1] \o <<"\n">> \o write_lines(Tail(links))

InitScraper ==
    /\ lpc = "accept"
    /\ server = "listening"
    /\ backlog = <<>>
    /\ conn = [c \in Conns |-> NewConn]
    /\ setup = [clients |-> 0, requests |-> {}, modes |-> {}]
    /\ quota = 0
    /\ \E processed \in ProcessedFiles : app = NewApp(processed)

Proxy == <<lpc, server, backlog, conn, setup, quota>>

\* lines 96-103: both files are read and split at the line breaks
RunStart ==
    /\ app.pc = "idle" /\ app.runs < MaxRuns
    /\ \E unique_links \in Lists(Range(split(app.processed_links, <<"\n">>))) :
           app' = [app EXCEPT
                      !.pc = "loop", !.runs = @ + 1,
                      !.unique_links = unique_links,
                      !.scraping_unique_links =
                          Range(split(app.scraping_links, <<"\n">>))]
    /\ UNCHANGED Proxy

\* lines 105-108: the next link, skipped when it is in scraping_unique_links
LoopNext ==
    /\ app.pc = "loop"
    /\ IF app.unique_links = <<>>
       THEN app' = [app EXCEPT !.pc = "write"]
       ELSE app' = [app EXCEPT
                       !.link = Head(app.unique_links),
                       !.unique_links = Tail(app.unique_links),
                       !.pc = IF Head(app.unique_links) \in app.scraping_unique_links
                              THEN "loop" ELSE "scraper"]
    /\ UNCHANGED Proxy

\* a KeyboardInterrupt between two calls of scraper, outside the try of
\* line 109: it ends the run
LoopInterrupted ==
    /\ app.pc = "loop"
    /\ app' = [app EXCEPT !.pc = "idle"]
    /\ UNCHANGED Proxy

\* lines 47-91: scraper(link) appends the article to articles.jsonl and
\* returns
ScraperAppends ==
    /\ app.pc = "scraper" /\ app.link # <<>>
    /\ app' = [app EXCEPT !.pc = "add", !.articles = Append(@, app.link)]
    /\ UNCHANGED Proxy

\* lines 58-60 and 71-73: sys.exit(0) on an unknown host or on missing
\* metadata; SystemExit is not caught at line 113 and ends the run
ScraperExits ==
    /\ app.pc = "scraper"
    /\ app' = [app EXCEPT !.pc = "idle"]
    /\ UNCHANGED Proxy

\* lines 62-79: the request, the decoding or the metadata raise; the
\* exception is not caught at line 113 and ends the run
ScraperRaises ==
    /\ app.pc = "scraper" /\ app.link # <<>>
    /\ app' = [app EXCEPT !.pc = "idle"]
    /\ UNCHANGED Proxy

\* lines 113-115: a KeyboardInterrupt inside scraper, before the article is
\* appended, leaves the loop
ScraperInterrupted ==
    /\ app.pc = "scraper"
    /\ app' = [app EXCEPT !.pc = "write"]
    /\ UNCHANGED Proxy

\* lines 113-115: a KeyboardInterrupt after the append of line 89 and before
\* line 111 (in conn.close() or at the return) leaves the loop
AppendInterrupted ==
    /\ app.pc = "add"
    /\ app' = [app EXCEPT !.pc = "write"]
    /\ UNCHANGED Proxy

\* lines 111-112
AddLink ==
    /\ app.pc = "add"
    /\ app' = [app EXCEPT !.pc = "loop",
                          !.scraping_unique_links = @ \cup {app.link}]
    /\ UNCHANGED Proxy

\* lines 117-120: scraping_links is rewritten, one line for each link of
\* the set but the empty one
WriteLinks ==
    /\ app.pc = "write"
    /\ \E scraping_links \in Lists(app.scraping_unique_links \ {<<>>}) :
           app' = [app EXCEPT !.pc = "idle",
                              !.scraping_links = write_lines(scraping_links)]
    /\ UNCHANGED Proxy

ScraperNext ==
    \/ RunStart
    \/ LoopNext
    \/ LoopInterrupted
    \/ ScraperAppends
    \/ ScraperExits
    \/ ScraperRaises
    \/ ScraperInterrupted
    \/ AppendInterrupted
    \/ AddLink
    \/ WriteLinks

ScraperSpec == InitScraper /\ [][ScraperNext]_vars

(**************************************************************************)
(* Vocabulary of the properties                                           *)
(**************************************************************************)
Parsed(c) == conn[c].parsed

Past(c, pcs) == conn[c].hpc \in pcs

Dialed(c) == conn[c].remote_socket = "connected"

DialFailed(c) == conn[c].remote_socket = "created"

IsTunnel(c) == Dialed(c) /\ Parsed(c).connect

IsForward(c) == Dialed(c) /\ ~Parsed(c).connect

Relayed(c) == conn[c].wpc[source_handler] # "none"

\* the bytes the client sent after the first chunk
ClientLater(c) == Drop(conn[c].csent, Len(conn[c].request))

\* the bytes the relay, not the handler, wrote to each side
RelayToRemote(c) ==
    Drop(conn[c].to_remote, IF Parsed(c).connect THEN 0 ELSE Len(conn[c].request))

RelayToClient(c) ==
    Drop(conn[c].to_client, IF Parsed(c).connect THEN Len(Ack) ELSE 0)

\* both peers closed their side and neither reset: nothing failed in the relay
CleanEnd(c) ==
    /\ conn[c].hpc = "done" /\ Relayed(c)
    /\ conn[c].cpeer = "eof" /\ conn[c].upeer = "eof"

\* the bytes worker w has written to its destination
Written(c, w) == IF w = source_handler THEN RelayToRemote(c) ELSE RelayToClient(c)

\* the bytes the source of worker w has sent to the relay
Sent(c, w) == IF w = source_handler THEN ClientLater(c) ELSE conn[c].usent

(**************************************************************************)
(* Properties                                                             *)
(**************************************************************************)
\* C1: on a CONNECT whose dial succeeded nothing is written to either side
\* before the acknowledgement, which is written only after the dial; what the
\* client receives begins with exactly the acknowledgement; behind it come
\* the upstream's bytes in order, the upstream receives the client's later
\* bytes in order, and all of them when both peers closed without a reset.
C1_AckThenRelay ==
    \A c \in Conns :
        /\ (Parsed(c).ok /\ Parsed(c).connect /\ ~Dialed(c)) =>
               conn[c].to_client = <<>>
        /\ IsTunnel(c) =>
            /\ Past(c, {"ack"}) =>
                   /\ conn[c].to_client = <<>> /\ conn[c].to_remote = <<>>
                   /\ ~Relayed(c)
            /\ IsPrefix(conn[c].to_client, Ack) \/ IsPrefix(Ack, conn[c].to_client)
            /\ Relayed(c) =>
                   /\ IsPrefix(Ack, conn[c].to_client)
                   /\ IsPrefix(RelayToClient(c), conn[c].usent)
                   /\ IsPrefix(conn[c].to_remote, ClientLater(c))
            /\ CleanEnd(c) =>
                   /\ conn[c].to_client = Ack \o conn[c].usent
                   /\ conn[c].to_remote = ClientLater(c)

C1_Witness ==
    \E c \in Conns :
        /\ IsTunnel(c) /\ CleanEnd(c)
        /\ conn[c].to_remote # <<>> /\ RelayToClient(c) # <<>>

\* C2: on any other request whose dial succeeded (port 80) the upstream
\* receives the first chunk unchanged before anything the relay forwards,
\* and the client receives the upstream's bytes and nothing else.
C2_RequestForwarded ==
    \A c \in Conns : IsForward(c) =>
        /\ conn[c].dialed[2] = 80
        /\ Past(c, {"fwd"}) => conn[c].to_remote = <<>>
        /\ IsPrefix(conn[c].to_remote, conn[c].request)
               \/ IsPrefix(conn[c].request, conn[c].to_remote)
        /\ ~Relayed(c) => conn[c].to_client = <<>>
        /\ Relayed(c) =>
               /\ IsPrefix(conn[c].request, conn[c].to_remote)
               /\ IsPrefix(RelayToRemote(c), ClientLater(c))
               /\ IsPrefix(conn[c].to_client, conn[c].usent)
        /\ CleanEnd(c) =>
               /\ conn[c].to_client = conn[c].usent
               /\ conn[c].to_remote = conn[c].request \o ClientLater(c)

C2_Witness ==
    \E c \in Conns :
        /\ IsForward(c) /\ CleanEnd(c)
        /\ conn[c].request = ReqGetUtf
        /\ conn[c].umode = "free" /\ conn[c].usent # <<>>

\* C3: in each direction of a relay the bytes written are a prefix of the
\* bytes read, which are a prefix of the bytes the source sent; a chunk is
\* written in full before the next read; behind an echoing upstream the
\* client of a tunnel receives back, in order, what it sent after the first
\* chunk.
C3_DirectionInOrder ==
    \A c \in Conns : Relayed(c) =>
        /\ \A w \in Workers :
            /\ IsPrefix(conn[c].response[w], Sent(c, w))
            /\ IsPrefix(Written(c, w), conn[c].response[w])
            /\ conn[c].wpc[w] = "recv" => Written(c, w) = conn[c].response[w]
            /\ conn[c].wpc[w] = "send" =>
                   /\ conn[c].data[w] # <<>>
                   /\ conn[c].response[w] = Written(c, w) \o conn[c].data[w]
        /\ (conn[c].umode = "echo" /\ Parsed(c).connect) =>
               IsPrefix(RelayToClient(c), ClientLater(c))

C3_Witness ==
    \E c \in Conns :
        /\ Relayed(c) /\ Parsed(c).connect /\ conn[c].umode = "echo"
        /\ Len(RelayToClient(c)) >= 2
        /\ RelayToClient(c) = ClientLater(c)

\* the first chunk is empty, does not decode, or its first line has fewer
\* than two tokens
Malformed(request) ==
    \/ request = <<>>
    \/ ~decode(request).ok
    \/ Len(split_ws(first_line(decode(request).text))) < 2

InFlight == {"recv", "dial", "ack", "fwd", "relay", "finally"}

\* C4: a handler whose first read is empty, undecodable or without a method
\* and a target never dials, writes nothing to the client and closes the
\* client socket.
C4_MalformedAborts ==
    \A c \in Conns :
        (Past(c, {"dial", "ack", "fwd", "relay", "finally", "done"})
            /\ Malformed(conn[c].request)) =>
            /\ Past(c, {"finally", "done"})
            /\ conn[c].dials = 0 /\ conn[c].remote_socket = "none"
            /\ conn[c].to_client = <<>> /\ conn[c].to_remote = <<>>
            /\ Past(c, {"done"}) => conn[c].client_close >= 1

C4_Witness ==
    \E c \in Conns :
        /\ Past(c, {"done"}) /\ conn[c].request = ReqOneToken
        /\ conn[c].client_close >= 1

\* C5: a handler dials at most once; when the dial fails nothing is written
\* to the client, no relay is started and the client socket is closed.
C5_DialFailureAborts ==
    \A c \in Conns :
        /\ conn[c].dials <= 1
        /\ DialFailed(c) =>
            /\ Past(c, {"finally", "done"})
            /\ conn[c].dials = 1
            /\ conn[c].to_client = <<>> /\ ~Relayed(c)
            /\ Past(c, {"done"}) => conn[c].client_close >= 1

C5_Witness ==
    \E c \in Conns :
        /\ Past(c, {"done"}) /\ DialFailed(c) /\ Parsed(c).connect
        /\ conn[c].client_close >= 1

\* C6: a step of one connection's handler or workers, a failing one included,
\* changes neither the listener nor another connection, and with connections
\* failed or completed the accept loop still accepts the next one.
C6_ListenerSurvives ==
    /\ [][\A c \in Conns :
            (conn[c].hpc # "idle" /\ conn'[c].hpc # conn[c].hpc) =>
                /\ lpc' = lpc /\ server' = server /\ backlog' = backlog
                /\ \A d \in Conns \ {c} : conn'[d] = conn[d]]_vars
    /\ []((lpc = "accept" /\ backlog # <<>>
            /\ \E c \in Conns : Past(c, {"done"}))
          => ENABLED Accept(Head(backlog)))

C6_Witness ==
    /\ lpc = "accept"
    /\ Past(1, {"done"}) /\ conn[1].exc
    /\ Past(2, {"relay"}) /\ conn[2].to_client # <<>>

\* C7 as stated: after the interrupt the listening socket is closed and every
\* handler in flight is still running.
C7_InFlightKeepRunning ==
    /\ lpc \in {"returned", "exited"} => server = "closed"
    /\ \A c \in Conns : Past(c, InFlight) => Running

\* C7 as amended: after the interrupt no connection is accepted and the
\* listening socket is closed when start returns; the handlers in flight
\* keep running until the process exits, and not after.
C7_InterruptStopsAccepts ==
    /\ [](lpc \in {"returned", "exited"} => server = "closed")
    /\ [][lpc # "accept" =>
            \A c \in Conns : conn[c].hpc = "idle" => conn'[c].hpc = "idle"]_vars
    /\ [](\A c \in Conns :
            /\ Past(c, {"dial"}) => (ENABLED Dial(c) <=> Running)
            /\ Past(c, {"ack"}) => (ENABLED SendAck(c) <=> Running)
            /\ Past(c, {"fwd"}) => (ENABLED SendRequest(c) <=> Running)
            /\ Past(c, {"finally"}) => (ENABLED Finally(c) <=> Running))
    /\ [][lpc = "exited" => conn' = conn]_vars

C7_Witness ==
    /\ lpc = "exited" /\ server = "closed"
    /\ \E c \in Conns : Past(c, {"relay"})

\* C8: an accepted connection has a handler of its own; whatever the other
\* handlers are blocked in, the accept loop can accept the next connection
\* and every handler or worker that is not itself blocked can take its step.
C8_NoHandlerBlocksAnother ==
    /\ \A c \in Conns :
        conn[c].hpc # "idle" =>
            /\ conn[c].cpeer # "none"
            /\ \A i \in 1..Len(backlog) : backlog[i] # c
    /\ (lpc = "accept" /\ backlog # <<>>) => ENABLED Accept(Head(backlog))
    /\ Running =>
        \A c \in Conns :
            /\ (Past(c, {"recv"})
                    /\ (ClientPending(c) # <<>> \/ conn[c].cpeer \in {"eof", "reset"}))
                   => ENABLED HandlerRecv(c)
            /\ Past(c, {"dial"}) => ENABLED Dial(c)
            /\ Past(c, {"ack"}) => ENABLED SendAck(c)
            /\ Past(c, {"fwd"}) => ENABLED SendRequest(c)
            /\ Past(c, {"finally"}) => ENABLED Finally(c)
            /\ \A w \in Workers :
                   (Past(c, {"relay"}) /\ conn[c].wpc[w] = "send")
                       => ENABLED WorkerSend(c, w)

C8_Witness ==
    /\ lpc = "accept"
    /\ Past(1, {"recv"}) /\ ClientPending(1) = <<>> /\ conn[1].cpeer = "open"
    /\ Past(2, {"relay"}) /\ conn[2].to_client # <<>>

\* C9 as stated: a terminated handler has closed the client socket exactly
\* once.
C9_ClientClosedOnce ==
    \A c \in Conns : Past(c, {"done"}) => conn[c].client_close = 1

\* C10 as stated: a terminated handler has handed every dialed upstream
\* connection to the relay and has closed it.
C10_UpstreamClosed ==
    \A c \in Conns :
        (Past(c, {"done"}) /\ Dialed(c)) =>
            Relayed(c) /\ conn[c].remote_close >= 1


\* the peer worker w reads from, and the peer it writes to
SourcePeer(c, w) == IF w = source_handler THEN conn[c].cpeer ELSE conn[c].upeer

DestinationPeer(c, w) == IF w = source_handler THEN conn[c].upeer ELSE conn[c].cpeer

SourcePending(c, w) ==
    IF w = source_handler THEN ClientPending(c) ELSE UpstreamPending(c)

Other(w) == IF w = source_handler THEN dest_handler ELSE source_handler

\* C11: while a copy worker of a relay is still running the relay has not
\* returned and neither socket is closed; a worker stops only at its own read
\* (zero bytes, or an error) or at its own failing write, its stop leaves the
\* other worker where it is, and the other worker can still take its step.
C11_DirectionsIndependent ==
    /\ [](\A c \in Conns :
            (Relayed(c) /\ \E w \in Workers : conn[c].wpc[w] # "stopped") =>
                /\ Past(c, {"relay"})
                /\ conn[c].client_close = 0 /\ conn[c].remote_close = 0)
    /\ [][\A c \in Conns : \A w \in Workers :
            (conn[c].wpc[w] \in {"recv", "send"} /\ conn'[c].wpc[w] = "stopped") =>
                /\ \/ /\ conn[c].wpc[w] = "recv"
                      /\ \/ SourcePending(c, w) = <<>> /\ SourcePeer(c, w) = "eof"
                         \/ SourcePeer(c, w) = "reset"
                   \/ /\ conn[c].wpc[w] = "send"
                      /\ DestinationPeer(c, w) = "reset"
                /\ conn'[c].wpc[Other(w)] = conn[c].wpc[Other(w)]
                /\ conn'[c].data[Other(w)] = conn[c].data[Other(w)]
                /\ conn'[c].hpc = "relay"]_vars
    /\ [](\A c \in Conns : \A w \in Workers :
            (Running /\ Past(c, {"relay"}) /\ conn[c].wpc[Other(w)] = "stopped") =>
                /\ conn[c].wpc[w] = "send" => ENABLED WorkerSend(c, w)
                /\ (conn[c].wpc[w] = "recv" /\ SourcePending(c, w) # <<>>)
                       => ENABLED WorkerRecv(c, w))

\* the client -> remote worker stopped at end-of-stream, the other worker
\* still holds a chunk of the upstream and both sockets are open
C11_Witness ==
    \E c \in Conns :
        /\ Past(c, {"relay"})
        /\ conn[c].wpc[source_handler] = "stopped" /\ conn[c].cpeer = "eof"
        /\ conn[c].wpc[dest_handler] = "send" /\ conn[c].upeer = "open"
        /\ conn[c].client_close = 0 /\ conn[c].remote_close = 0


\* C12: the step that ends a relay is taken with both workers stopped and is
\* the relay's one close of the client socket and one close of the upstream
\* socket; no other step of the relay closes a socket, and when the relay has
\* returned to the handler each socket has been closed once, however the
\* workers stopped.
C12_RelayClosesBoth ==
    /\ [][\A c \in Conns :
            conn[c].hpc = "relay" =>
                IF conn'[c].hpc = "relay"
                THEN /\ conn'[c].client_close = conn[c].client_close
                     /\ conn'[c].remote_close = conn[c].remote_close
                ELSE /\ \A w \in Workers : conn[c].wpc[w] = "stopped"
                     /\ conn'[c].client_close = conn[c].client_close + 1
                     /\ conn'[c].remote_close = conn[c].remote_close + 1]_vars
    /\ [](\A c \in Conns :
            (Relayed(c) /\ Past(c, {"finally"})) =>
                conn[c].client_close = 1 /\ conn[c].remote_close = 1)
    /\ [](\A c \in Conns :
            (Relayed(c) /\ Past(c, {"done"})) => conn[c].remote_close = 1)

\* a relay has returned after a failed write to the upstream and an
\* end-of-stream of the client
C12_Witness ==
    \E c \in Conns :
        /\ Relayed(c) /\ Past(c, {"finally"})
        /\ conn[c].upeer = "reset" /\ conn[c].cpeer = "eof"
        /\ conn[c].client_close = 1 /\ conn[c].remote_close = 1


PeerClosed(c) == conn[c].cpeer \in {"eof", "reset"} \/ conn[c].upeer \in {"eof", "reset"}

BothClosed(c) == conn[c].cpeer \in {"eof", "reset"} /\ conn[c].upeer \in {"eof", "reset"}

\* a step of the relay of c can be taken
RelayCanStep(c) ==
    \/ ENABLED RelayClose(c)
    \/ \E w \in Workers : ENABLED WorkerRecv(c, w) \/ ENABLED WorkerSend(c, w)

\* C13 as stated: once either peer has closed, a running relay goes on to
\* its return by its own steps, whatever the other peer does or does not do.
C13_EitherCloseEndsRelay ==
    \A c \in Conns :
        (Running /\ Past(c, {"relay"}) /\ PeerClosed(c)) => RelayCanStep(c)

\* C13 as amended: once both peers have closed, a relay eventually returns
\* with both sockets closed, unless the process exits first; after the close
\* of one peer the worker that reads from it can take its step, and the
\* other worker stops only at a read or write of its own.
C13_BothClosedEndsRelay ==
    /\ \A c \in Conns :
           (Past(c, {"relay"}) /\ BothClosed(c))
               ~> (~Running \/ (Past(c, {"finally", "done"})
                                  /\ conn[c].client_close >= 1
                                  /\ conn[c].remote_close = 1))
    /\ [](\A c \in Conns : \A w \in Workers :
            (Running /\ Past(c, {"relay"}) /\ conn[c].wpc[w] = "recv"
                /\ SourcePeer(c, w) \in {"eof", "reset"})
                => ENABLED WorkerRecv(c, w))
    /\ [](\A c \in Conns : \A w \in Workers :
            (Past(c, {"relay"}) /\ conn[c].wpc[w] = "recv"
                /\ SourcePeer(c, w) = "open" /\ SourcePending(c, w) = <<>>)
                => ~ENABLED WorkerRecv(c, w))

\* a relay has returned after both peers closed, the upstream first
C13_Witness ==
    \E c \in Conns :
        /\ Relayed(c) /\ Past(c, {"finally"})
        /\ conn[c].cpeer = "eof" /\ conn[c].upeer = "eof"
        /\ conn[c].usent # <<>> /\ conn[c].to_client = conn[c].usent


\* the target of a request: the second token of its first line
Target(request) == split_ws(first_line(decode(request).text))[2]

\* a target without its "scheme://" prefix: what follows the first "://",
\* when no "/" comes before it
WithoutScheme(url) ==
    LET i == find(url, <<":", "/", "/">>, 1)
        j == find(url, <<"/">>, 1)
    IN  IF i > 0 /\ j >= i THEN SubSeq(url, i + 3, Len(url)) ELSE url

\* ... cut at its first "/"
UpToSlash(url) ==
    LET j == find(url, <<"/">>, 1)
    IN  IF j > 0 THEN SubSeq(url, 1, j - 1) ELSE url

\* C14 as stated: a handler that dials for a request other than CONNECT
\* dials the target without its scheme prefix, cut at the first "/", on
\* port 80.
C14_HostOfTarget ==
    \A c \in Conns :
        (conn[c].dials > 0 /\ ~Parsed(c).connect) =>
            conn[c].dialed = <<UpToSlash(WithoutScheme(Target(conn[c].request))), 80>>


\* the authority "host:port" of a CONNECT target: the host before the first
\* ":" and the decimal port after it
AuthorityHost(url) ==
    LET i == find(url, <<":">>, 1)
    IN  IF i > 0 THEN SubSeq(url, 1, i - 1) ELSE url

HasPort(url) == find(url, <<":">>, 1) > 0

AuthorityPort(url) ==
    LET i == find(url, <<":">>, 1)
        k == find(url, <<":">>, i + 1)
    IN  SubSeq(url, i + 1, IF k > 0 THEN k - 1 ELSE Len(url))

IsNumber(s) == s # <<>> /\ \A i \in 1..Len(s) : is_digit(s[i])

\* the tokens of the first line of a first chunk, <<>> when it does not decode
Tokens(request) ==
    CHOOSE t \in {IF d.ok THEN split_ws(first_line(d.text)) ELSE <<>> :
                  d \in {decode(request)}} : TRUE

IsConnectRequest(tokens) == Len(tokens) = 3 /\ is_connect(tokens[1])

Scraped(link) == Cardinality({i \in DOMAIN app.articles : app.articles[i] = link})

\* the links recorded in the file scraping_links
Recorded == Range(split(app.scraping_links, <<"\n">>)) \ {<<>>}

\* C16 as stated: a recorded link is not scraped again, after a run every
\* link with an article is recorded, and no link is scraped twice.
C16_NoLinkScrapedTwice ==
    /\ app.pc = "scraper" => app.link \notin Recorded
    /\ app.pc = "idle" => \A i \in DOMAIN app.articles : app.articles[i] \in Recorded
    /\ \A i \in DOMAIN app.articles : Scraped(app.articles[i]) = 1


\* the state of the handler of c in the terms of the specification: the
\* acknowledgement or the request is written by the step that starts the
\* relay, so TunnelAck and Forwarded are passed within that step
Phase(r) ==
    CASE r.hpc = "idle" -> "None"
      [] r.hpc = "recv" -> "Accepted"
      [] r.hpc \in {"dial", "ack", "fwd"} -> "Parsed"
      [] r.hpc = "relay" -> "Relaying"
      [] r.hpc \in {"finally", "done"} ->
             IF r.wpc[source_handler] # "none" THEN "Closed" ELSE "Aborted"

PhaseSteps ==
    { <<"None", "Accepted">>, <<"Accepted", "Parsed">>, <<"Accepted", "Aborted">>,
      <<"Parsed", "Relaying">>, <<"Parsed", "Aborted">>, <<"Relaying", "Closed">> }

\* C17: a handler moves only from Accepted to Parsed, from there to the
\* relay and from the relay to Closed, or from Accepted or Parsed to Aborted;
\* it dials only with a parsed request; the step that starts the relay is
\* taken after a successful dial and writes the acknowledgement (CONNECT) or
\* the request (otherwise) first; Closed and Aborted are left by no step.
C17_HandlerPath ==
    /\ [][\A c \in Conns :
            /\ Phase(conn'[c]) # Phase(conn[c]) =>
                   <<Phase(conn[c]), Phase(conn'[c])>> \in PhaseSteps
            /\ conn'[c].dials # conn[c].dials =>
                   Phase(conn[c]) = "Parsed" /\ conn[c].parsed.ok
            /\ (Phase(conn[c]) = "Parsed" /\ Phase(conn'[c]) = "Relaying") =>
                   /\ conn[c].remote_socket = "connected" /\ conn[c].dials = 1
                   /\ IF conn[c].parsed.connect
                      THEN /\ conn'[c].to_client = conn[c].to_client \o Ack
                           /\ conn'[c].to_remote = conn[c].to_remote
                      ELSE /\ conn'[c].to_remote =
                                  conn[c].to_remote \o conn[c].request
                           /\ conn'[c].to_client = conn[c].to_client]_vars
    /\ [](\A c \in Conns :
            /\ Phase(conn[c]) = "Accepted" => conn[c].dials = 0
            /\ Phase(conn[c]) \in {"Relaying", "Closed"} =>
                   /\ Parsed(c).ok /\ Dialed(c)
                   /\ IF Parsed(c).connect
                      THEN IsPrefix(Ack, conn[c].to_client)
                      ELSE IsPrefix(conn[c].request, conn[c].to_remote)
            /\ Phase(conn[c]) = "Aborted" => ~Relayed(c))

\* a handler is Closed after a tunnel whose two peers reset
C17_Witness ==
    \E c \in Conns :
        /\ Phase(conn[c]) = "Closed" /\ Past(c, {"done"})
        /\ Parsed(c).connect /\ ~conn[c].exc
        /\ conn[c].cpeer = "reset" /\ conn[c].upeer = "reset"


\* C18: the step that reads the first chunk goes on to the dial only when
\* the first line has exactly three tokens; with two tokens, or four or
\* more, it enters the except clause, and a handler that entered it without
\* a dial never dials and never writes to the client.
C18_ThreeTokens ==
    /\ [][\A c \in Conns :
            (conn[c].hpc = "recv" /\ conn'[c].hpc # "recv") =>
                \A tokens \in {Tokens(conn'[c].request)} :
                    /\ conn'[c].hpc = "dial" => Len(tokens) = 3
                    /\ Len(tokens) # 3 =>
                           /\ conn'[c].hpc = "finally" /\ conn'[c].exc
                           /\ conn'[c].dials = 0 /\ conn'[c].to_client = <<>>]_vars
    /\ [][\A c \in Conns :
            (conn[c].exc /\ conn[c].dials = 0) =>
                /\ conn'[c].exc /\ conn'[c].dials = 0
                /\ conn'[c].hpc \in {"finally", "done"}]_vars
    /\ [](\A c \in Conns :
            (conn[c].exc /\ conn[c].dials = 0) =>
                /\ conn[c].to_client = <<>> /\ conn[c].to_remote = <<>>
                /\ conn[c].remote_socket = "none" /\ ~Relayed(c))

\* a handler has ended on a first line of four tokens
C18_Witness ==
    \E c \in Conns :
        /\ conn[c].request = ReqFourTokens /\ Past(c, {"done"})
        /\ conn[c].exc /\ conn[c].dials = 0 /\ conn[c].to_client = <<>>


\* the first chunk ends before the line break of its first line
CutLine(request) == request # <<>> /\ find(request, <<"\n">>, 1) = 0

\* C19 as stated: the handler has read once, at most 4096 bytes, when it
\* parses, and a first chunk without a line break is never dialed for: its
\* handler ends in the except clause.
C19_CutLineAborts ==
    \A c \in Conns :
        /\ Past(c, {"dial", "ack", "fwd"}) =>
               /\ conn[c].cread = Len(conn[c].request)
               /\ Len(conn[c].request) <= RequestBufSize
        /\ (~Past(c, {"idle", "recv"}) /\ CutLine(conn[c].request)) =>
               /\ conn[c].dials = 0
               /\ Past(c, {"finally", "done"}) /\ conn[c].exc


\* the method is CONNECT in some letter case
AnyCaseConnect(method) ==
    LET small == <<"c", "o", "n", "n", "e", "c", "t">>
    IN  /\ Len(method) = Len(CONNECT)
        /\ \A i \in 1..Len(method) : method[i] \in {CONNECT[i], small[i]}

\* C20: the parse takes the tunnel branch exactly for a method that is
\* CONNECT in some letter case and the forward branch, with port 80, for any
\* other; a successful dial is followed by the acknowledgement on the first
\* branch and by the request on the second; a tunnel's upstream receives
\* nothing of the first chunk, and a forward's upstream receives it first.
C20_TwoBranches ==
    /\ [][\A c \in Conns :
            (conn[c].hpc = "recv" /\ conn'[c].hpc = "dial") =>
                \A tokens \in {Tokens(conn'[c].request)} :
                    /\ conn'[c].parsed.connect = AnyCaseConnect(tokens[1])
                    /\ ~conn'[c].parsed.connect => conn'[c].parsed.port = 80]_vars
    /\ [][\A c \in Conns :
            (conn[c].hpc = "dial" /\ conn'[c].hpc # "dial") =>
                conn'[c].hpc \in {"finally",
                                  IF conn[c].parsed.connect THEN "ack" ELSE "fwd"}]_vars
    /\ [](\A c \in Conns :
            /\ Past(c, {"ack"}) => IsTunnel(c)
            /\ Past(c, {"fwd"}) => IsForward(c) /\ conn[c].dialed[2] = 80
            /\ Relayed(c) =>
                   IF Parsed(c).connect
                   THEN /\ IsPrefix(Ack, conn[c].to_client)
                        /\ IsPrefix(conn[c].to_remote, ClientLater(c))
                   ELSE /\ IsPrefix(conn[c].request, conn[c].to_remote)
                        /\ conn[c].dialed[2] = 80)

\* the relay of a tunnel asked for in small letters has forwarded a byte
C20_Witness ==
    \E c \in Conns :
        /\ conn[c].request = ReqConnectLow /\ Relayed(c)
        /\ IsPrefix(Ack, conn[c].to_client) /\ conn[c].to_remote # <<>>


\* what the first chunk holds behind its first line
BehindFirstLine(request) ==
    LET i == find(request, <<"\n">>, 1)
    IN  IF i > 0 THEN SubSeq(request, i + 1, Len(request)) ELSE <<>>

\* C21: on the CONNECT path the upstream is written to only by the
\* client -> remote worker of the relay, which writes the chunk it has read
\* after the acknowledgement; what the upstream receives is a prefix of the
\* bytes the client sent after the first chunk, so nothing of the first
\* chunk, and nothing of what it holds behind the request line, reaches it.
C21_FirstChunkDropped ==
    /\ [][\A c \in Conns :
            (conn[c].parsed.connect /\ conn'[c].to_remote # conn[c].to_remote) =>
                /\ conn[c].hpc = "relay" /\ conn[c].wpc[source_handler] = "send"
                /\ IsPrefix(Ack, conn[c].to_client)
                /\ \E k \in 1..Len(conn[c].data[source_handler]) :
                       conn'[c].to_remote =
                           conn[c].to_remote \o Take(conn[c].data[source_handler], k)]_vars
    /\ [](\A c \in Conns :
            (Parsed(c).ok /\ Parsed(c).connect) =>
                /\ ~Relayed(c) => conn[c].to_remote = <<>>
                /\ IsPrefix(conn[c].to_remote, ClientLater(c))
                /\ Len(conn[c].to_remote) + Len(conn[c].request) <= Len(conn[c].csent))

\* the first chunk of a tunnel held a byte behind the request line, and the
\* relay has ended with the upstream having received only the later byte
C21_Witness ==
    \E c \in Conns :
        /\ IsTunnel(c) /\ Past(c, {"done"}) /\ Relayed(c)
        /\ BehindFirstLine(conn[c].request) # <<>>
        /\ conn[c].to_remote # <<>>
        /\ conn[c].to_remote = ClientLater(c)


\* the bytes the source of worker w has sent
SourceSent(r, w) == IF w = source_handler THEN r.csent ELSE r.usent

\* worker w of c is blocked in its read: its source is open and has sent
\* nothing the proxy has not read
BlockedInRecv(c, w) ==
    /\ Past(c, {"relay"}) /\ conn[c].wpc[w] = "recv"
    /\ SourcePeer(c, w) = "open" /\ SourcePending(c, w) = <<>>

\* C22: with the handler and worker threads scheduled fairly and the process
\* running, a relay whose two peers have closed or reset leads to both
\* workers stopped, both sockets closed and the handler terminated; and a
\* worker blocked in its read stays there, with the relay not returned and
\* no socket closed, over every step in which its source neither sends,
\* closes nor resets.
C22_TerminatesWhenPeersClose ==
    /\ \A c \in Conns :
           (Past(c, {"relay"}) /\ BothClosed(c))
               ~> (~Running \/ (/\ Past(c, {"done"})
                                /\ \A w \in Workers : conn[c].wpc[w] = "stopped"
                                /\ conn[c].client_close >= 1
                                /\ conn[c].remote_close = 1))
    /\ [][\A c \in Conns : \A w \in Workers :
            (BlockedInRecv(c, w)
                /\ SourceSent(conn'[c], w) = SourceSent(conn[c], w)
                /\ (IF w = source_handler THEN conn'[c].cpeer ELSE conn'[c].upeer)
                       = "open") =>
                /\ conn'[c].wpc[w] = "recv" /\ conn'[c].hpc = "relay"
                /\ conn'[c].client_close = 0 /\ conn'[c].remote_close = 0]_vars
    /\ [](\A c \in Conns : \A w \in Workers :
            BlockedInRecv(c, w) => ~ENABLED RelayClose(c))

\* the handler of a forward has terminated after the client closed and the
\* upstream reset
C22_Witness ==
    \E c \in Conns :
        /\ Past(c, {"done"}) /\ Relayed(c) /\ ~Parsed(c).connect
        /\ conn[c].cpeer = "eof" /\ conn[c].upeer = "reset"
        /\ \A w \in Workers : conn[c].wpc[w] = "stopped"
        /\ conn[c].remote_close = 1

=============================================================================
